---- MODULE Spec2Model ----
(***************************************************************************)
(* Digital I/O synchronisation engine of usbd_digital_io.c: the live and   *)
(* the candidate digital state, the switch sequencer, the transition       *)
(* computation (Set_Changes), the commit (SwitchPorts), the read path, the  *)
(* report codec and the trigger.  The HAL (HAL_GPIO_Init,                  *)
(* GPIO_Write_DIGITAL_IO, GPIO_Read_DIGITAL_IO) is modelled by the calls    *)
(* the engine makes and by the level last written to every pin.            *)
(***************************************************************************)
EXTENDS Integers, Sequences, FiniteSets, TLC

(* ---- program constants ------------------------------------------------ *)
DIGITAL_MAX_PORT_NUM == 6
DIGITAL_MAX_PIN_NUM == 4
PORT_UNUSED == 255

\* Digital_IO_Mode_Info, Digital_IO_Pull_Info: the masked command bits
INPUT == 0
OUTPUT == 2
NOPULL == 0
PULLDOWN == 4
PULLUP == 8

\* Digital_IO_Change_Flag, HID_Digital_IO_Trigger, Digital_IO_Report_Flag
\* UNCHANGED of the source (a reserved word here)
FLAG_UNCHANGED == 0
CHANGED == 1
DONTCARE == 0
TRIGGERED == 1
NO_REPORT == 0
REPORT == 1

DIGITAL_PIN_LOW == 0
DIGITAL_PIN_HIGH == 1

\* stm32f4xx_hal_gpio.h
GPIO_MODE_INPUT == 0
GPIO_MODE_OUTPUT_PP == 1
GPIO_NOPULL == 0
GPIO_PULLUP == 1
GPIO_PULLDOWN == 2

\* uint8_t arithmetic of the sequencer cursors
U8 == 256

Ports == 0 .. (DIGITAL_MAX_PORT_NUM - 1)
Pins == 0 .. (DIGITAL_MAX_PIN_NUM - 1)

(* ---- bounds of the model ---------------------------------------------- *)
\* number of Set_Changes calls in a behaviour
MaxCmds == 2

\* Set_Changes calls in a run that hands every byte value to the decoder
MaxDecodeCmds == 1

(* ---- bit operations on bytes ------------------------------------------ *)
Pow2(n) == 2 ^ n

\* bit i of byte b
Bit(b, i) == (b \div Pow2(i)) % 2

\* b & m for a mask m, both bytes
RECURSIVE AndBits(_, _, _)
AndBits(b, m, i) ==
  IF i > 7 THEN 0
  ELSE Bit(b, i) * Bit(m, i) * Pow2(i) + AndBits(b, m, i + 1)

\* the masks of the source: 0x01, 0x02, 0x0C, 0x10|0x20|0x40|0x80
Masks == { 1, 2, 12, 240 }

\* b & m for every byte and every mask, computed once
AndTable == [ b \in 0 .. 255, m \in Masks |-> AndBits(b, m, 0) ]

And(b, m) == AndTable[b, m]

\* gpio_digital_pin[port][pin]: the physical pin identifier, one bit per pin
gpio_digital_pin(port, pin) == Pow2(pin)

\* the union of the pin identifiers of a port, as the |= loops build it
RECURSIVE PinMaskFrom(_, _)
PinMaskFrom(port, pin) ==
  IF pin >= DIGITAL_MAX_PIN_NUM THEN 0
  ELSE gpio_digital_pin(port, pin) + PinMaskFrom(port, pin + 1)

PinMask(port) == PinMaskFrom(port, 0)

(* ---- state ------------------------------------------------------------- *)
VARIABLES
  digital_io,               \* HID_DIGITAL_IO_TypeDef: the live state
  digital_io_new_state,     \* HID_DIGITAL_IO_TypeDef: the candidate state
  digital_io_trigger,       \* HID_Digital_IO_Trigger
  digital_io_change_flag,   \* Digital_IO_Change_Flag
  digital_io_report_flag,   \* Digital_IO_Report_Flag
  digital_io_switch_buffer, \* ORDERED_ARRAY: array, head_idx, tail_idx
  report,                   \* the bytes the most recent operation filled for its caller
  gpio_level,               \* level last written to each pin by GPIO_Write_DIGITAL_IO
  gpio_init_calls,          \* HAL_GPIO_Init calls since the call last_op began, in order
  gpio_write_calls,         \* GPIO_Write_DIGITAL_IO calls since then
  gpio_read_calls,          \* GPIO_Read_DIGITAL_IO calls since then
  output_buff,              \* the bytes the most recent Set_Changes read
  mem_fault,                \* an access outside digital_io_switch_buffer.array happened
  outputs_before,           \* the ports the most recent SwitchPorts found in output mode
  last_op,                  \* the most recent call that writes engine state
  committed,                \* the last two such calls were Set_Changes(output_buff)
                            \* and SwitchPorts
  repeat_buff,              \* the last Set_Changes got the buffer that was committed
                            \* when it was called
  ncmd,                     \* Set_Changes calls so far
  output_len,               \* bytes the caller's buffer held at the last Set_Changes
  trig_in                   \* output_buff[0] of the Trigger call when Trigger is
                            \* the most recent call, -1 otherwise

vars == << digital_io, digital_io_new_state, digital_io_trigger,
           digital_io_change_flag, digital_io_report_flag,
           digital_io_switch_buffer, report, gpio_level, gpio_init_calls,
           gpio_write_calls, gpio_read_calls, output_buff, mem_fault,
           outputs_before, last_op, committed, repeat_buff, ncmd,
           output_len, trig_in >>

hw_calls == << gpio_init_calls, gpio_write_calls, gpio_read_calls >>

(* ---- USBD_HID_Digital_IO_Init ----------------------------------------- *)
\* one port after the body of the port loop
DefaultPort(port_idx) ==
  [ gpio_settings |-> [ Mode |-> GPIO_MODE_INPUT,
                        Pull |-> GPIO_PULLDOWN,
                        Pin |-> PinMask(port_idx) ],
    pin_enabled_size |-> DIGITAL_MAX_PIN_NUM,
    changeIO |-> FLAG_UNCHANGED,
    changePIN |-> FLAG_UNCHANGED,
    pins |-> [ pin_idx \in Pins |-> DIGITAL_PIN_LOW ] ]

USBD_HID_Digital_IO_Init ==
  [ port_enabled_size |-> DIGITAL_MAX_PORT_NUM,
    ports |-> [ port_idx \in Ports |-> DefaultPort(port_idx) ] ]

(* ---- USBD_HID_Digital_IO_Reset_SwitchTrig ----------------------------- *)
EmptySwitchBuffer ==
  [ array |-> [ port_idx \in Ports |-> PORT_UNUSED ],
    head_idx |-> 0,
    tail_idx |-> DIGITAL_MAX_PORT_NUM - 1 ]

(* ---- USBD_HID_Digital_IO_Set_Changes ---------------------------------- *)
\* digital_io_switch_buffer.array[idx] = val.  A store outside the array is
\* undefined: the byte lands outside the modelled state (ub = "elsewhere")
\* or on one of the cursors that live next to the array.
ArrayStore(sb, idx, val, ub) ==
  IF idx \in Ports THEN [ sb EXCEPT !.array[idx] = val ]
  ELSE IF ub = "head_idx" THEN [ sb EXCEPT !.head_idx = val ]
  ELSE IF ub = "tail_idx" THEN [ sb EXCEPT !.tail_idx = val ]
  ELSE sb

\* temp_mode = byte & 0x02, then the conditional of the Mode assignment
DecodeMode(byte) ==
  IF And(byte, 2) = OUTPUT THEN GPIO_MODE_OUTPUT_PP ELSE GPIO_MODE_INPUT

\* a switch without the default case, which leaves the pull of the pull
\* bits 11 unset: C15 does not hold of it
DecodePull_NoDefault(byte) ==
  LET temp_pull == And(byte, 12) IN
  CASE temp_pull = NOPULL -> GPIO_NOPULL
    [] temp_pull = PULLDOWN -> GPIO_PULLDOWN
    [] temp_pull = PULLUP -> GPIO_PULLUP
    [] OTHER -> -1

\* temp_pull = byte & 0x0C, then the switch
DecodePull(byte) ==
  LET temp_pull == And(byte, 12) IN
  CASE temp_pull = NOPULL -> GPIO_NOPULL
    [] temp_pull = PULLDOWN -> GPIO_PULLDOWN
    [] temp_pull = PULLUP -> GPIO_PULLUP
    [] OTHER -> GPIO_NOPULL

\* pin bits that are masked but not shifted down: C12 does not hold of it
DecodePins_Unshifted(byte) == And(byte, 240)

\* temp_pins = (byte & 0xF0) >> 4
DecodePins(byte) == And(byte, 240) \div 16

\* a comparison that overlooks the pull: C5 does not hold of it
IoChanged_ModeOnly(mode, pull, lp) == mode # lp.gpio_settings.Mode

\* the condition that sets changeIO: MODE or PULL differs from the live port
IoChanged(mode, pull, lp) ==
  mode # lp.gpio_settings.Mode \/ pull # lp.gpio_settings.Pull

\* a classification with the two ends swapped: C1 does not hold of it
QueueAtTail_Swapped(mode) == mode # GPIO_MODE_OUTPUT_PP

\* the condition that picks the tail of the switch buffer for a changed port
QueueAtTail(mode) == mode = GPIO_MODE_OUTPUT_PP

\* a pin loop that asks for a rewrite of every output port: C8 does not
\* hold of it
PinFlag_Always(v, lv, changeIO) == CHANGED

\* the changePIN flag one pass of the pin loop assigns: v is the new pin
\* value, lv the live one
PinFlag(v, lv, changeIO) ==
  IF \/ (v # lv /\ changeIO = FLAG_UNCHANGED)
     \/ changeIO = CHANGED
  THEN CHANGED ELSE FLAG_UNCHANGED

\* the pin loop of an OUTPUT port, from pin_idx on: every pass stores the
\* pin value and then assigns the changePIN flag
RECURSIVE PinLoop(_, _, _, _)
PinLoop(np, lp, temp_pins, pin_idx) ==
  IF pin_idx >= DIGITAL_MAX_PIN_NUM THEN np
  ELSE
    LET v == (temp_pins \div Pow2(pin_idx)) % 2
    IN PinLoop([ np EXCEPT !.pins[pin_idx] = v,
                           !.changePIN = PinFlag(v, lp.pins[pin_idx], np.changeIO) ],
               lp, temp_pins, pin_idx + 1)

\* a push that steps the cursor before the store: C19 does not hold of it
PushPort_StepFirst(sb, mode, port_idx, ub) ==
  IF QueueAtTail(mode)
  THEN LET w == [ sb EXCEPT !.tail_idx = (sb.tail_idx - 1) % U8 ]
       IN ArrayStore(w, w.tail_idx, port_idx, ub)
  ELSE LET w == [ sb EXCEPT !.head_idx = (sb.head_idx + 1) % U8 ]
       IN ArrayStore(w, w.head_idx, port_idx, ub)

\* the push of a changed port: the store, then the cursor step
PushPort(sb, mode, port_idx, ub) ==
  IF QueueAtTail(mode)
  THEN LET w == ArrayStore(sb, sb.tail_idx, port_idx, ub)
       IN [ w EXCEPT !.tail_idx = (w.tail_idx - 1) % U8 ]
  ELSE LET w == ArrayStore(sb, sb.head_idx, port_idx, ub)
       IN [ w EXCEPT !.head_idx = (w.head_idx + 1) % U8 ]

\* the push stores outside the array
PushFault(sb, mode) ==
  IF QueueAtTail(mode) THEN sb.tail_idx \notin Ports ELSE sb.head_idx \notin Ports

\* the branch of a port in use (bit 0 of its byte set); st is the candidate
\* state ns, the switch buffer sb and the fault flag so far
ActivePort(st, lp, byte, port_idx, ub) ==
  LET np0 == st.ns.ports[port_idx]
      mode == DecodeMode(byte)
      pull == DecodePull(byte)
      io == IoChanged(mode, pull, lp)
      np2 == [ np0 EXCEPT !.gpio_settings.Mode = mode,
                          !.gpio_settings.Pull = pull,
                          !.changeIO = IF io THEN CHANGED ELSE FLAG_UNCHANGED ]
      np3 == IF And(byte, 2) = OUTPUT
             THEN PinLoop(np2, lp, DecodePins(byte), 0)
             ELSE [ np2 EXCEPT !.changePIN = FLAG_UNCHANGED ]
  IN [ ns |-> [ st.ns EXCEPT !.ports[port_idx] = np3 ],
       sb |-> IF io THEN PushPort(st.sb, mode, port_idx, ub) ELSE st.sb,
       fault |-> st.fault \/ (io /\ PushFault(st.sb, mode)) ]

\* a default branch that leaves the two flags as the last computation set
\* them: C6 does not hold of it
DefaultBranch_KeepsFlags(st, port_idx) ==
  LET np0 == st.ns.ports[port_idx]
      np1 == [ np0 EXCEPT !.gpio_settings.Mode = GPIO_MODE_INPUT,
                          !.gpio_settings.Pull = GPIO_PULLDOWN,
                          !.gpio_settings.Pin = PinMask(port_idx),
                          !.pin_enabled_size = DIGITAL_MAX_PIN_NUM,
                          !.pins = [ pin_idx \in Pins |-> DIGITAL_PIN_LOW ] ]
  IN [ st EXCEPT !.ns.ports[port_idx] = np1 ]

\* the branch of a port not in use: the default settings
DefaultBranch(st, port_idx) ==
  LET np0 == st.ns.ports[port_idx]
      np1 == [ np0 EXCEPT !.gpio_settings.Mode = GPIO_MODE_INPUT,
                          !.gpio_settings.Pull = GPIO_PULLDOWN,
                          !.gpio_settings.Pin = PinMask(port_idx),
                          !.pin_enabled_size = DIGITAL_MAX_PIN_NUM,
                          !.changeIO = FLAG_UNCHANGED,
                          !.changePIN = FLAG_UNCHANGED,
                          !.pins = [ pin_idx \in Pins |-> DIGITAL_PIN_LOW ] ]
  IN [ st EXCEPT !.ns.ports[port_idx] = np1 ]

\* the port loop from port_idx on
RECURSIVE SetChangesFrom(_, _, _, _, _)
SetChangesFrom(st, live, buf, port_idx, ub) ==
  IF port_idx >= DIGITAL_MAX_PORT_NUM THEN st
  ELSE
    LET temp_change == And(buf[port_idx + 1], 1)
        nxt == IF temp_change = CHANGED
               THEN ActivePort(st, live.ports[port_idx], buf[port_idx + 1], port_idx, ub)
               ELSE DefaultBranch(st, port_idx)
    IN SetChangesFrom(nxt, live, buf, port_idx + 1, ub)

SetChangesResult(buf, ub) ==
  SetChangesFrom([ ns |-> digital_io_new_state,
                   sb |-> digital_io_switch_buffer,
                   fault |-> mem_fault ],
                 digital_io, buf, 0, ub)

(* ---- USBD_HID_Digital_IO_GPIO_Setup ----------------------------------- *)
\* digital_io_switch_buffer.array[idx]; a read outside the array is
\* undefined and yields ubr
ArrayLoad(sb, idx, ubr) == IF idx \in Ports THEN sb.array[idx] ELSE ubr

\* the HAL_GPIO_Init call of GPIO_Setup(idx), made from the while loop
\* number loop; a port index outside digital_io.ports reads no settings of
\* the model
USBD_HID_Digital_IO_GPIO_Setup(live, sb, idx, ubr, loop) ==
  LET p == ArrayLoad(sb, idx, ubr) IN
  IF p \in Ports
  THEN [ idx |-> idx, port |-> p, loop |-> loop,
         Pin |-> live.ports[p].gpio_settings.Pin,
         Mode |-> live.ports[p].gpio_settings.Mode,
         Pull |-> live.ports[p].gpio_settings.Pull ]
  ELSE [ idx |-> idx, port |-> p, loop |-> loop,
         Pin |-> -1, Mode |-> -1, Pull |-> -1 ]

GpioSetupFault(sb, idx, ubr) ==
  idx \notin Ports \/ ArrayLoad(sb, idx, ubr) \notin Ports

(* ---- USBD_HID_Digital_IO_SwitchPorts ---------------------------------- *)
\* first while loop: st is the switch buffer sb, the calls so far and the
\* fault flag
RECURSIVE DrainHead(_, _, _)
DrainHead(st, live, ubr) ==
  IF st.sb.head_idx = 0 THEN st
  ELSE
    LET h == (st.sb.head_idx - 1) % U8
        sb1 == [ st.sb EXCEPT !.head_idx = h ]
    IN DrainHead([ sb |-> sb1,
                   calls |-> Append(st.calls,
                               USBD_HID_Digital_IO_GPIO_Setup(live, sb1, h, ubr, 1)),
                   fault |-> st.fault \/ GpioSetupFault(sb1, h, ubr) ],
                 live, ubr)

\* a second loop that configures the queued ports in the order they were
\* queued, from the last slot down: C17 does not hold of it
RECURSIVE DrainTail_QueueOrder(_, _, _)
DrainTail_QueueOrder(st, live, ubr) ==
  IF st.sb.tail_idx = DIGITAL_MAX_PORT_NUM - 1 THEN st
  ELSE
    LET t == (st.sb.tail_idx + 1) % U8
        sb1 == [ st.sb EXCEPT !.tail_idx = t ]
        rest == DrainTail_QueueOrder([ st EXCEPT !.sb = sb1 ], live, ubr)
    IN [ rest EXCEPT !.calls =
           Append(rest.calls, USBD_HID_Digital_IO_GPIO_Setup(live, sb1, t, ubr, 2)) ]

\* second while loop
RECURSIVE DrainTail(_, _, _)
DrainTail(st, live, ubr) ==
  IF st.sb.tail_idx = DIGITAL_MAX_PORT_NUM - 1 THEN st
  ELSE
    LET t == (st.sb.tail_idx + 1) % U8
        sb1 == [ st.sb EXCEPT !.tail_idx = t ]
    IN DrainTail([ sb |-> sb1,
                   calls |-> Append(st.calls,
                               USBD_HID_Digital_IO_GPIO_Setup(live, sb1, t, ubr, 2)),
                   fault |-> st.fault \/ GpioSetupFault(sb1, t, ubr) ],
                 live, ubr)

\* the GPIO_Write_DIGITAL_IO calls of one port in the third step
PinWrites(live, port_idx) ==
  IF live.ports[port_idx].changePIN = CHANGED
  THEN [ pin_idx \in 1 .. DIGITAL_MAX_PIN_NUM |->
           [ port |-> port_idx, pin |-> pin_idx - 1,
             level |-> live.ports[port_idx].pins[pin_idx - 1] ] ]
  ELSE << >>

\* third step, from port_idx on: the writes in call order
RECURSIVE WriteLoop(_, _)
WriteLoop(live, port_idx) ==
  IF port_idx >= DIGITAL_MAX_PORT_NUM THEN << >>
  ELSE PinWrites(live, port_idx) \o WriteLoop(live, port_idx + 1)

\* the levels on the pins after the third step
LevelsAfter(live, lev) ==
  [ port_idx \in Ports |->
      IF live.ports[port_idx].changePIN = CHANGED
      THEN live.ports[port_idx].pins
      ELSE lev[port_idx] ]

\* a third step that resets changePIN only: C9 does not hold of it
FlagsReset_PinOnly(live) ==
  [ live EXCEPT !.ports = [ port_idx \in Ports |->
      [ live.ports[port_idx] EXCEPT !.changePIN = FLAG_UNCHANGED ] ] ]

\* the live state after the third step: both flags of every port reset
FlagsReset(live) ==
  [ live EXCEPT !.ports = [ port_idx \in Ports |->
      [ live.ports[port_idx] EXCEPT !.changePIN = FLAG_UNCHANGED,
                                    !.changeIO = FLAG_UNCHANGED ] ] ]

(* ---- USBD_HID_Digital_IO_CreateReport --------------------------------- *)
\* the pin loop: report[report_num] += pins[pin_idx] << (pin_idx + offset)
RECURSIVE AddPins(_, _, _, _)
AddPins(byte, pins, offset, pin_idx) ==
  IF pin_idx >= DIGITAL_MAX_PIN_NUM THEN byte
  ELSE AddPins((byte + pins[pin_idx] * Pow2(pin_idx + offset)) % U8,
               pins, offset, pin_idx + 1)

\* the port loop from port_idx on; rep is indexed 0..3, report_num is the
\* local of that name before the pass
RECURSIVE ReportFrom(_, _, _, _)
ReportFrom(rep, report_num, live, port_idx) ==
  IF port_idx >= DIGITAL_MAX_PORT_NUM THEN rep
  ELSE
    LET r0 == [ rep EXCEPT ![0] =
                  (rep[0] + live.ports[port_idx].gpio_settings.Mode * Pow2(port_idx)) % U8 ]
        n == IF port_idx % 2 = 0 THEN report_num + 1 ELSE report_num
        offset == IF port_idx % 2 = 0 THEN 0 ELSE 4
        r1 == [ r0 EXCEPT ![n] =
                  AddPins(r0[n], live.ports[port_idx].pins, offset, 0) ]
    IN ReportFrom(r1, n, live, port_idx + 1)

\* a report built on top of the bytes the caller's buffer held, here all
\* ones: C11 does not hold of it
CreateReportResult_NotCleaned(live) ==
  ReportFrom([ i \in 0 .. 3 |-> 255 ], 0, live, 0)

\* the four bytes cleaned, then the port loop
CreateReportResult(live) == ReportFrom([ i \in 0 .. 3 |-> 0 ], 0, live, 0)

(* ---- inputs ------------------------------------------------------------ *)
\* command buffers, one byte per port.  The bytes: not in use (0x00, and
\* 0xFE with every other bit set), input without pull (0x01), input with
\* pull-down (0x05), output without pull with the pins 0000 (0x03), 0001
\* (0x13) and 1000 (0x83), output with pull-up (0x0B), output with the pull
\* bits 11 and the pins 1010 (0xAF)
Buffers ==
  { << 0, 0, 0, 0, 0, 0 >>,
    << 3, 3, 3, 3, 3, 3 >>,
    << 1, 1, 1, 1, 1, 1 >>,
    << 19, 5, 0, 0, 3, 3 >>,
    << 131, 175, 1, 3, 1, 3 >>,
    << 254, 11, 3, 1, 3, 1 >>,
    << 3, 0, 1, 175, 0, 1 >>,
    << 1, 3, 0, 0, 0, 0 >> }

\* buffers shorter than DIGITAL_MAX_PORT_NUM bytes, the empty one included
ShortBuffers ==
  { SubSeq(buf, 1, n) : buf \in { << 3, 3, 3, 3, 3, 3 >>, << 19, 5, 0, 0, 3, 3 >> },
                        n \in 0 .. (DIGITAL_MAX_PORT_NUM - 1) }

\* what the memory behind a short buffer holds: the port loop reads it,
\* which is undefined, and gets any of these
OverreadBytes == { 0, 1, 3 }

\* the bytes output_buff[0 .. DIGITAL_MAX_PORT_NUM - 1] the port loop reads
\* when the caller's buffer is short
BytesRead(short, over) ==
  [ i \in 1 .. DIGITAL_MAX_PORT_NUM |-> IF i <= Len(short) THEN short[i] ELSE over ]

\* every value of a byte of the command buffer
Bytes == 0 .. (U8 - 1)

\* first bytes of the buffers handed to Trigger
TriggerBytes == { 254, 255, 0 }

\* the buffers handed to Trigger: the other bytes are zero, or the second
\* is the sentinel
TriggerBuffers ==
  { << b, 0, 0, 0, 0, 0 >> : b \in TriggerBytes }
    \cup { << b, 254, 0, 0, 0, 0 >> : b \in { 254, 255 } }

\* what GPIO_Read_DIGITAL_IO returns for every port and pin: all high,
\* alternating
ReadLevels ==
  { [ port_idx \in Ports |-> [ pin_idx \in Pins |-> DIGITAL_PIN_HIGH ] ],
    [ port_idx \in Ports |-> [ pin_idx \in Pins |-> (port_idx + pin_idx) % 2 ] ] }

\* outcomes of a store outside the array, and of a load outside it
StoreOutcomes == { "elsewhere", "head_idx", "tail_idx" }
LoadOutcomes == Ports \cup { PORT_UNUSED }

(* ---- initial state ----------------------------------------------------- *)
\* after USBD_HID_Digital_IO_Init on both instances and Reset_SwitchTrig
Init ==
  /\ digital_io = USBD_HID_Digital_IO_Init
  /\ digital_io_new_state = USBD_HID_Digital_IO_Init
  /\ digital_io_trigger = DONTCARE
  /\ digital_io_change_flag = NO_REPORT
  /\ digital_io_report_flag = NO_REPORT
  /\ digital_io_switch_buffer = EmptySwitchBuffer
  /\ report = << >>
  /\ gpio_level = [ port_idx \in Ports |-> [ pin_idx \in Pins |-> DIGITAL_PIN_LOW ] ]
  /\ gpio_init_calls = << >>
  /\ gpio_write_calls = << >>
  /\ gpio_read_calls = << >>
  /\ output_buff = << 0, 0, 0, 0, 0, 0 >>
  /\ mem_fault = FALSE
  /\ outputs_before = { }
  /\ last_op = "Init"
  /\ committed = FALSE
  /\ repeat_buff = FALSE
  /\ ncmd = 0
  /\ output_len = DIGITAL_MAX_PORT_NUM
  /\ trig_in = -1

(* ---- actions ----------------------------------------------------------- *)
SequencerEmpty ==
  /\ digital_io_switch_buffer.head_idx = 0
  /\ digital_io_switch_buffer.tail_idx = DIGITAL_MAX_PORT_NUM - 1

\* a Set_Changes that computes into the live state as well: C7 does not
\* hold of it
SetChangesCall_WritesLive(buf, len, ub) ==
  /\ ncmd < MaxCmds
  /\ \E r \in { SetChangesResult(buf, ub) } :
       /\ digital_io_new_state' = r.ns
       /\ digital_io' = r.ns
       /\ digital_io_switch_buffer' = r.sb
       /\ mem_fault' = r.fault
  /\ gpio_init_calls' = << >>
  /\ gpio_write_calls' = << >>
  /\ gpio_read_calls' = << >>
  /\ output_buff' = buf
  /\ repeat_buff' = (committed /\ buf = output_buff)
  /\ last_op' = "Set_Changes"
  /\ committed' = FALSE
  /\ ncmd' = ncmd + 1
  /\ output_len' = len
  /\ trig_in' = -1
  /\ report' = << >>
  /\ UNCHANGED << digital_io_trigger, digital_io_change_flag,
                  digital_io_report_flag, gpio_level, outputs_before >>

\* one call USBD_HID_Digital_IO_Set_Changes(output_buff): buf is the
\* DIGITAL_MAX_PORT_NUM bytes the port loop reads, of which the caller's
\* buffer holds the first len
SetChangesCall(buf, len, ub) ==
  /\ ncmd < MaxCmds
  /\ \E r \in { SetChangesResult(buf, ub) } :
       /\ digital_io_new_state' = r.ns
       /\ digital_io_switch_buffer' = r.sb
       /\ mem_fault' = r.fault
  /\ gpio_init_calls' = << >>
  /\ gpio_write_calls' = << >>
  /\ gpio_read_calls' = << >>
  /\ output_buff' = buf
  /\ repeat_buff' = (committed /\ buf = output_buff)
  /\ last_op' = "Set_Changes"
  /\ committed' = FALSE
  /\ ncmd' = ncmd + 1
  /\ output_len' = len
  /\ trig_in' = -1
  /\ report' = << >>
  /\ UNCHANGED << digital_io, digital_io_trigger, digital_io_change_flag,
                  digital_io_report_flag, gpio_level, outputs_before >>

\* the caller starts a transition computation on a drained sequencer
USBD_HID_Digital_IO_Set_Changes ==
  \E buf \in Buffers : SequencerEmpty /\ SetChangesCall(buf, DIGITAL_MAX_PORT_NUM, "elsewhere")

\* a transition computation on a buffer that holds one byte value, any of
\* the 256, for every port
Set_Changes_AnyByte ==
  \E b \in Bytes :
    /\ ncmd < MaxDecodeCmds
    /\ SequencerEmpty
    /\ SetChangesCall([ i \in 1 .. DIGITAL_MAX_PORT_NUM |-> b ],
                      DIGITAL_MAX_PORT_NUM, "elsewhere")

\* a transition computation on a buffer that is too short: the function
\* takes no length and returns nothing, and reads DIGITAL_MAX_PORT_NUM bytes
Set_Changes_Short ==
  \E short \in ShortBuffers, over \in OverreadBytes :
    /\ SequencerEmpty
    /\ SetChangesCall(BytesRead(short, over), Len(short), "elsewhere")

\* a caller that starts one whatever the sequencer holds
Set_Changes_Reentrant ==
  \E buf \in Buffers, ub \in StoreOutcomes :
    /\ ub # "elsewhere" => ~SequencerEmpty
    /\ SetChangesCall(buf, DIGITAL_MAX_PORT_NUM, ub)

SwitchPortsCall(ubr) ==
  \E live \in { digital_io_new_state } :
  \E b \in { DrainTail(DrainHead([ sb |-> digital_io_switch_buffer,
                                   calls |-> << >>,
                                   fault |-> mem_fault ], live, ubr),
                       live, ubr) } :
     /\ digital_io' = FlagsReset(live)
     /\ digital_io_switch_buffer' = b.sb
     /\ mem_fault' = b.fault
     /\ gpio_init_calls' = b.calls
     /\ gpio_write_calls' = WriteLoop(live, 0)
     /\ gpio_level' = LevelsAfter(live, gpio_level)
     /\ gpio_read_calls' = << >>
     /\ outputs_before' = { port_idx \in Ports :
            digital_io.ports[port_idx].gpio_settings.Mode = GPIO_MODE_OUTPUT_PP }
     /\ last_op' = "SwitchPorts"
     /\ committed' = (last_op = "Set_Changes")
     /\ report' = << >>
     /\ trig_in' = -1
     /\ UNCHANGED << digital_io_new_state, digital_io_trigger,
                     digital_io_change_flag, digital_io_report_flag,
                     output_buff, repeat_buff, ncmd, output_len >>

USBD_HID_Digital_IO_SwitchPorts == SwitchPortsCall(PORT_UNUSED)

SwitchPorts_Reentrant == \E ubr \in LoadOutcomes : SwitchPortsCall(ubr)

\* the GPIO_Read_DIGITAL_IO calls of Read in call order, each with the
\* level it returned
ReadCalls(lev) ==
  [ i \in 1 .. (DIGITAL_MAX_PORT_NUM * DIGITAL_MAX_PIN_NUM) |->
      [ port |-> (i - 1) \div DIGITAL_MAX_PIN_NUM,
        pin |-> (i - 1) % DIGITAL_MAX_PIN_NUM,
        level |-> lev[(i - 1) \div DIGITAL_MAX_PIN_NUM][(i - 1) % DIGITAL_MAX_PIN_NUM] ] ]

\* a read that stores the sampled levels of the input ports only: C13 does
\* not hold of it
Read_InputsOnly ==
  \E lev \in ReadLevels :
    /\ digital_io' = [ digital_io EXCEPT !.ports = [ port_idx \in Ports |->
                         IF digital_io.ports[port_idx].gpio_settings.Mode = GPIO_MODE_INPUT
                         THEN [ digital_io.ports[port_idx] EXCEPT !.pins = lev[port_idx] ]
                         ELSE digital_io.ports[port_idx] ] ]
    /\ gpio_read_calls' = ReadCalls(lev)
    /\ gpio_init_calls' = << >>
    /\ gpio_write_calls' = << >>
    /\ last_op' = "Read"
    /\ committed' = FALSE
    /\ report' = << >>
    /\ trig_in' = -1
    /\ UNCHANGED << digital_io_new_state, digital_io_trigger,
                    digital_io_change_flag, digital_io_report_flag,
                    digital_io_switch_buffer, gpio_level, output_buff,
                    mem_fault, outputs_before, repeat_buff, ncmd, output_len >>

USBD_HID_Digital_IO_Read ==
  \E lev \in ReadLevels :
    /\ digital_io' = [ digital_io EXCEPT !.ports = [ port_idx \in Ports |->
                         [ digital_io.ports[port_idx] EXCEPT !.pins = lev[port_idx] ] ] ]
    /\ gpio_read_calls' = ReadCalls(lev)
    /\ gpio_init_calls' = << >>
    /\ gpio_write_calls' = << >>
    /\ last_op' = "Read"
    /\ committed' = FALSE
    /\ report' = << >>
    /\ trig_in' = -1
    /\ UNCHANGED << digital_io_new_state, digital_io_trigger,
                    digital_io_change_flag, digital_io_report_flag,
                    digital_io_switch_buffer, gpio_level, output_buff,
                    mem_fault, outputs_before, repeat_buff, ncmd, output_len >>

USBD_HID_Digital_IO_CreateReport ==
  /\ report' = CreateReportResult(digital_io)
  /\ trig_in' = -1
  /\ UNCHANGED hw_calls
  /\ UNCHANGED << digital_io, digital_io_new_state, digital_io_trigger,
                  digital_io_change_flag, digital_io_report_flag,
                  digital_io_switch_buffer, gpio_level, output_buff, mem_fault,
                  outputs_before, last_op, committed, repeat_buff, ncmd,
                  output_len >>

\* a trigger that takes every first byte from the sentinel up: C14 does
\* not hold of it
Trigger_FromSentinelUp ==
  \E buf \in TriggerBuffers :
    /\ digital_io_trigger' = IF buf[1] >= 254 THEN TRIGGERED ELSE DONTCARE
    /\ trig_in' = buf[1]
    /\ UNCHANGED hw_calls
    /\ report' = << >>
    /\ UNCHANGED << digital_io, digital_io_new_state, digital_io_change_flag,
                    digital_io_report_flag, digital_io_switch_buffer,
                    gpio_level, output_buff, mem_fault, outputs_before, last_op,
                    committed, repeat_buff, ncmd, output_len >>

USBD_HID_Digital_IO_Trigger ==
  \E buf \in TriggerBuffers :
    /\ digital_io_trigger' = IF buf[1] = 254 THEN TRIGGERED ELSE DONTCARE
    /\ trig_in' = buf[1]
    /\ UNCHANGED hw_calls
    /\ report' = << >>
    /\ UNCHANGED << digital_io, digital_io_new_state, digital_io_change_flag,
                    digital_io_report_flag, digital_io_switch_buffer,
                    gpio_level, output_buff, mem_fault, outputs_before, last_op,
                    committed, repeat_buff, ncmd, output_len >>

USBD_HID_Digital_IO_Reset_SwitchTrig ==
  /\ digital_io_switch_buffer' = EmptySwitchBuffer
  /\ digital_io_trigger' = DONTCARE
  /\ digital_io_change_flag' = NO_REPORT
  /\ gpio_init_calls' = << >>
  /\ gpio_write_calls' = << >>
  /\ gpio_read_calls' = << >>
  /\ last_op' = "Reset_SwitchTrig"
  /\ committed' = FALSE
  /\ report' = << >>
  /\ trig_in' = -1
  /\ UNCHANGED << digital_io, digital_io_new_state, digital_io_report_flag,
                  gpio_level, output_buff, mem_fault, outputs_before,
                  repeat_buff, ncmd, output_len >>

\* the code that uses the engine assigns the two flags, which are globals
\* this file declares and otherwise only resets
Caller_SetFlags ==
  \E c \in { FLAG_UNCHANGED, CHANGED }, r \in { NO_REPORT, REPORT } :
    /\ digital_io_change_flag' = c
    /\ digital_io_report_flag' = r
    /\ gpio_init_calls' = << >>
    /\ gpio_write_calls' = << >>
    /\ gpio_read_calls' = << >>
    /\ last_op' = "Caller"
    /\ committed' = FALSE
    /\ report' = << >>
    /\ trig_in' = -1
    /\ UNCHANGED << digital_io, digital_io_new_state, digital_io_trigger,
                    digital_io_switch_buffer, gpio_level, output_buff,
                    mem_fault, outputs_before, repeat_buff, ncmd, output_len >>

(* ---- specifications ---------------------------------------------------- *)
\* every operation, in any order; a transition computation starts on a
\* drained sequencer
Next ==
  \/ USBD_HID_Digital_IO_Set_Changes
  \/ USBD_HID_Digital_IO_SwitchPorts
  \/ USBD_HID_Digital_IO_Read
  \/ USBD_HID_Digital_IO_CreateReport
  \/ USBD_HID_Digital_IO_Trigger
  \/ USBD_HID_Digital_IO_Reset_SwitchTrig

Spec == Init /\ [][Next]_vars

\* only transition computations and commits: no hardware read, no reset
NextCycles ==
  \/ USBD_HID_Digital_IO_Set_Changes
  \/ USBD_HID_Digital_IO_SwitchPorts

SpecCycles == Init /\ [][NextCycles]_vars

\* a caller that does not wait for the commit before the next computation
NextReentrant ==
  \/ Set_Changes_Reentrant
  \/ SwitchPorts_Reentrant
  \/ USBD_HID_Digital_IO_Reset_SwitchTrig

SpecReentrant == Init /\ [][NextReentrant]_vars

\* cycles on buffers of every byte value
NextDecode ==
  \/ Set_Changes_AnyByte
  \/ USBD_HID_Digital_IO_SwitchPorts

SpecDecode == Init /\ [][NextDecode]_vars

\* cycles on buffers that are too short
NextShort ==
  \/ Set_Changes_Short
  \/ USBD_HID_Digital_IO_SwitchPorts

SpecShort == Init /\ [][NextShort]_vars

\* cycles, triggers and resets with a caller that raises the flags
NextFlags ==
  \/ USBD_HID_Digital_IO_Set_Changes
  \/ USBD_HID_Digital_IO_SwitchPorts
  \/ USBD_HID_Digital_IO_Trigger
  \/ USBD_HID_Digital_IO_Reset_SwitchTrig
  \/ Caller_SetFlags

SpecFlags == Init /\ [][NextFlags]_vars

(* ---- vocabulary of the properties -------------------------------------- *)
LiveMode(p) == digital_io.ports[p].gpio_settings.Mode
LivePull(p) == digital_io.ports[p].gpio_settings.Pull
CandMode(p) == digital_io_new_state.ports[p].gpio_settings.Mode
CandPull(p) == digital_io_new_state.ports[p].gpio_settings.Pull
CandIO(p) == digital_io_new_state.ports[p].changeIO
CandPIN(p) == digital_io_new_state.ports[p].changePIN

\* bit 0 of the port's byte in the last command buffer
InUse(p) == Bit(output_buff[p + 1], 0) = 1

\* the ports the last Set_Changes classified as changed, by new mode
ToInput == { p \in Ports : InUse(p) /\ CandIO(p) = CHANGED
                           /\ CandMode(p) = GPIO_MODE_INPUT }
ToOutput == { p \in Ports : InUse(p) /\ CandIO(p) = CHANGED
                            /\ CandMode(p) = GPIO_MODE_OUTPUT_PP }

\* the slots of the two queued ranges, [0, head_idx) and (tail_idx, last]
MakeSafeSlots == { i \in Ports : i < digital_io_switch_buffer.head_idx }
DriveSlots ==
  { i \in Ports : (DIGITAL_MAX_PORT_NUM - 1 - i) <
       ((DIGITAL_MAX_PORT_NUM - 1 - digital_io_switch_buffer.tail_idx) % U8) }

\* entries queued, counted in the arithmetic of the cursors
QueuedCount ==
  digital_io_switch_buffer.head_idx
    + ((DIGITAL_MAX_PORT_NUM - 1 - digital_io_switch_buffer.tail_idx) % U8)

\* positions of the HAL_GPIO_Init calls of the last operation
InitCallIdx == DOMAIN gpio_init_calls

AfterCycle == last_op = "SwitchPorts" /\ committed
AfterSetChanges == last_op = "Set_Changes"

(* ---- C1 ---------------------------------------------------------------- *)
\* C1: two-phase safety.  After a cycle Set_Changes; SwitchPorts that began
\* on an empty sequencer, the first loop made exactly the HAL_GPIO_Init
\* calls of the ports queued with new mode Input, each with the now-live
\* mode Input, the second loop exactly those of the ports queued with new
\* mode Output, each with the now-live mode Output, and every call of a
\* port going to Input comes before every call of a port going to Output.
C1_TwoPhaseSafety ==
  AfterCycle =>
    /\ \A i \in InitCallIdx :
         LET c == gpio_init_calls[i] IN
           /\ c.port \in Ports
           /\ c.Mode = LiveMode(c.port)
           /\ c.loop = 1 => (c.port \in ToInput /\ c.Mode = GPIO_MODE_INPUT)
           /\ c.loop = 2 => (c.port \in ToOutput /\ c.Mode = GPIO_MODE_OUTPUT_PP)
    /\ \A p \in ToInput :
         \E i \in InitCallIdx : gpio_init_calls[i].port = p /\ gpio_init_calls[i].loop = 1
    /\ \A p \in ToOutput :
         \E i \in InitCallIdx : gpio_init_calls[i].port = p /\ gpio_init_calls[i].loop = 2
    /\ \A i, j \in InitCallIdx :
         ( gpio_init_calls[i].Mode = GPIO_MODE_INPUT
           /\ gpio_init_calls[j].Mode = GPIO_MODE_OUTPUT_PP ) => i < j

\* a commit that takes one port from output to input and another from
\* input to output
C1_Witness ==
  /\ AfterCycle
  /\ \E i, j \in InitCallIdx :
       /\ gpio_init_calls[i].loop = 1
       /\ gpio_init_calls[i].port \in outputs_before
       /\ gpio_init_calls[j].loop = 2
       /\ gpio_init_calls[j].port \notin outputs_before

(* ---- C2 ---------------------------------------------------------------- *)
\* C2: every port that leaves output mode is made safe first.  After a
\* cycle, every port that was live Output and is now Input got a
\* HAL_GPIO_Init call from the first loop, before every call that
\* configures a port as Output.
C2_LeavingOutputMadeSafe ==
  AfterCycle =>
    \A p \in outputs_before :
      LiveMode(p) = GPIO_MODE_INPUT =>
        \E i \in InitCallIdx :
          /\ gpio_init_calls[i].port = p
          /\ gpio_init_calls[i].loop = 1
          /\ \A j \in InitCallIdx :
               gpio_init_calls[j].Mode = GPIO_MODE_OUTPUT_PP => i < j

(* ---- C3 ---------------------------------------------------------------- *)
\* C3: the commit drives what was commanded.  With only Set_Changes and
\* SwitchPorts called, after every SwitchPorts every pin of every live
\* Output port carries, as the level last written to it, the live pin value,
\* which is bit 4+pin of the port's byte in the last command buffer.
C3_CommitDrivesCommand ==
  last_op = "SwitchPorts" =>
    \A p \in Ports :
      LiveMode(p) = GPIO_MODE_OUTPUT_PP =>
        \A pin \in Pins :
          /\ gpio_level[p][pin] = digital_io.ports[p].pins[pin]
          /\ digital_io.ports[p].pins[pin] = Bit(output_buff[p + 1], 4 + pin)

(* ---- C4 ---------------------------------------------------------------- *)
\* C4: after Set_Changes, a port in use whose candidate mode is Output has
\* changePIN set exactly when changeIO is set or some decoded pin value
\* differs from the live one; a port in use whose candidate mode is Input
\* has changePIN clear.
C4_ChangedPin ==
  AfterSetChanges =>
    \A p \in Ports :
      InUse(p) =>
        /\ CandMode(p) = GPIO_MODE_OUTPUT_PP =>
             ( CandPIN(p) = CHANGED <=>
                 \/ CandIO(p) = CHANGED
                 \/ \E pin \in Pins :
                      digital_io_new_state.ports[p].pins[pin] # digital_io.ports[p].pins[pin] )
        /\ CandMode(p) = GPIO_MODE_INPUT => CandPIN(p) = FLAG_UNCHANGED

(* ---- C5 ---------------------------------------------------------------- *)
\* the k-th port, by rising index, of a set of ports sits in slot k
RankIn(S, p) == Cardinality({ q \in S : q < p })

\* C5: classification.  After a Set_Changes that began on an empty
\* sequencer, a port in use has changeIO set exactly when the candidate
\* mode or pull differs from the live one; the changed ports with new mode
\* Input fill the slots from 0 upward in scan order and head_idx counts
\* them, those with new mode Output fill the slots from the last downward
\* and tail_idx has stepped down once for each; no port is queued twice and
\* the two cursors together count the ports with changeIO set.
C5_Classification ==
  AfterSetChanges =>
    /\ \A p \in Ports :
         InUse(p) =>
           ( CandIO(p) = CHANGED <=>
               (CandMode(p) # LiveMode(p) \/ CandPull(p) # LivePull(p)) )
    /\ digital_io_switch_buffer.head_idx = Cardinality(ToInput)
    /\ digital_io_switch_buffer.tail_idx =
         (DIGITAL_MAX_PORT_NUM - 1 - Cardinality(ToOutput)) % U8
    /\ \A p \in ToInput :
         digital_io_switch_buffer.array[RankIn(ToInput, p)] = p
    /\ \A p \in ToOutput :
         digital_io_switch_buffer.array[DIGITAL_MAX_PORT_NUM - 1 - RankIn(ToOutput, p)] = p
    /\ \A i, j \in MakeSafeSlots \cup DriveSlots :
         digital_io_switch_buffer.array[i] = digital_io_switch_buffer.array[j] => i = j
    /\ QueuedCount = Cardinality({ p \in Ports : CandIO(p) = CHANGED })

\* a computation that queues ports in both phases and leaves a port in use
\* unqueued
C5_Witness ==
  /\ AfterSetChanges
  /\ Cardinality(ToInput) >= 2
  /\ Cardinality(ToOutput) >= 2
  /\ \E p \in Ports : InUse(p) /\ CandIO(p) = FLAG_UNCHANGED

(* ---- C6 ---------------------------------------------------------------- *)
QueuedSlots == MakeSafeSlots \cup DriveSlots

\* C6: after Set_Changes, a port whose byte has bit 0 clear, whatever the
\* other bits and the live state, has the candidate mode Input, pull
\* PullDown, every pin Low and both flags clear, and has no entry in the
\* sequencer: the cursors count the changed ports in use only.
C6_UnusedPortDefault ==
  AfterSetChanges =>
    /\ \A p \in Ports :
         ~InUse(p) =>
           /\ CandMode(p) = GPIO_MODE_INPUT
           /\ CandPull(p) = GPIO_PULLDOWN
           /\ \A pin \in Pins : digital_io_new_state.ports[p].pins[pin] = DIGITAL_PIN_LOW
           /\ CandIO(p) = FLAG_UNCHANGED
           /\ CandPIN(p) = FLAG_UNCHANGED
           /\ \A i \in QueuedSlots : digital_io_switch_buffer.array[i] # p
    /\ QueuedCount = Cardinality(ToInput \cup ToOutput)

\* a port not in use whose byte has every other bit set, while the live
\* port is an output with another pull, and other ports are queued
C6_Witness ==
  /\ AfterSetChanges
  /\ QueuedCount >= 2
  /\ \E p \in Ports :
       /\ output_buff[p + 1] = 254
       /\ LiveMode(p) = GPIO_MODE_OUTPUT_PP
       /\ LivePull(p) # GPIO_PULLDOWN
       /\ \E pin \in Pins : digital_io.ports[p].pins[pin] = DIGITAL_PIN_HIGH

(* ---- C7 ---------------------------------------------------------------- *)
LiveConfig == [ p \in Ports |-> << LiveMode(p), LivePull(p) >> ]
CandConfig == [ p \in Ports |-> << CandMode(p), CandPull(p) >> ]

\* C7: a Set_Changes step makes no HAL call and leaves the live state and
\* the pin levels as they were; the live mode and pull of the ports change
\* only in a SwitchPorts step, which makes all of them the candidate's.
C7_SetChangesFrame ==
  [][ /\ (ncmd' = ncmd + 1) =>
           /\ digital_io' = digital_io
           /\ gpio_level' = gpio_level
           /\ gpio_init_calls' = << >>
           /\ gpio_write_calls' = << >>
           /\ gpio_read_calls' = << >>
      /\ (LiveConfig' # LiveConfig) =>
           /\ last_op' = "SwitchPorts"
           /\ LiveConfig' = CandConfig
    ]_vars

\* a computed candidate that differs from the live state in mode and in
\* pin values
C7_Witness ==
  /\ AfterSetChanges
  /\ \E p \in Ports : CandMode(p) # LiveMode(p)
  /\ \E p \in Ports, pin \in Pins :
       digital_io_new_state.ports[p].pins[pin] # digital_io.ports[p].pins[pin]

(* ---- C8 ---------------------------------------------------------------- *)
\* C8: idempotence.  In Set_Changes(b); SwitchPorts; Set_Changes(b);
\* SwitchPorts with no read in between, the second Set_Changes leaves both
\* flags of every candidate port clear, and the second SwitchPorts makes no
\* HAL_GPIO_Init and no GPIO_Write_DIGITAL_IO call.
C8_Idempotence ==
  /\ (AfterSetChanges /\ repeat_buff) =>
       \A p \in Ports : CandIO(p) = FLAG_UNCHANGED /\ CandPIN(p) = FLAG_UNCHANGED
  /\ (AfterCycle /\ repeat_buff) =>
       gpio_init_calls = << >> /\ gpio_write_calls = << >>

\* the second commit of a buffer that drives pins high on one port and
\* makes another an input without pull
C8_Witness ==
  /\ AfterCycle
  /\ repeat_buff
  /\ \E p \in Ports, pin \in Pins :
       /\ LiveMode(p) = GPIO_MODE_OUTPUT_PP
       /\ digital_io.ports[p].pins[pin] = DIGITAL_PIN_HIGH
  /\ \E p \in Ports : InUse(p) /\ LiveMode(p) = GPIO_MODE_INPUT

(* ---- C9 ---------------------------------------------------------------- *)
\* C9: after every SwitchPorts the live flags of every port are clear, the
\* live mode, pull and pin values are the candidate's, and the sequencer is
\* empty.
C9_AfterSwitchPorts ==
  last_op = "SwitchPorts" =>
    /\ \A p \in Ports :
         /\ digital_io.ports[p].changeIO = FLAG_UNCHANGED
         /\ digital_io.ports[p].changePIN = FLAG_UNCHANGED
         /\ LiveMode(p) = CandMode(p)
         /\ LivePull(p) = CandPull(p)
         /\ digital_io.ports[p].pins = digital_io_new_state.ports[p].pins
    /\ digital_io_switch_buffer.head_idx = 0
    /\ digital_io_switch_buffer.tail_idx = DIGITAL_MAX_PORT_NUM - 1

\* a commit of a candidate with both flags set somewhere and entries drained
\* from both ends
C9_Witness ==
  /\ last_op = "SwitchPorts"
  /\ \E p \in Ports : CandIO(p) = CHANGED /\ CandPIN(p) = CHANGED
  /\ \E i, j \in InitCallIdx : gpio_init_calls[i].loop = 1 /\ gpio_init_calls[j].loop = 2
  /\ gpio_write_calls # << >>

(* ---- C10 --------------------------------------------------------------- *)
\* C10: whenever Set_Changes has run, in any sequence of Set_Changes and
\* SwitchPorts calls, the sequencer holds only the entries of that call:
\* the cursors count the ports it classified as changed, the two ranges do
\* not overlap and no port index is queued twice.
C10_SequencerFreshPerCall ==
  (AfterSetChanges /\ ~mem_fault) =>
    /\ QueuedCount = Cardinality(ToInput \cup ToOutput)
    /\ MakeSafeSlots \cap DriveSlots = { }
    /\ \A i, j \in QueuedSlots :
         digital_io_switch_buffer.array[i] = digital_io_switch_buffer.array[j] => i = j

(* ---- C11 --------------------------------------------------------------- *)
\* the most recent call was CreateReport: report holds the bytes it built
ReportBuilt == DOMAIN report # { }

\* bits lo .. lo+3 of a report byte
Nibble(byte, lo) == (byte \div Pow2(lo)) % 16

\* the four pin values of a port as a nibble, pin 0 lowest
PinsNibble(pins) ==
  pins[0] + 2 * pins[1] + 4 * pins[2] + 8 * pins[3]

\* C11: a CreateReport step changes nothing of the engine and makes no
\* hardware call, and the report it builds is the encoding of the live
\* state: bit i of byte 0 is 1 exactly when port i is live Output, bits 6
\* and 7 are 0, and in byte 1+k bit p is live pin p of port 2k and bit 4+p
\* live pin p of port 2k+1.
C11_CreateReport ==
  [][ (DOMAIN report' # { }) =>
        /\ UNCHANGED << digital_io, digital_io_new_state, digital_io_trigger,
                        digital_io_change_flag, digital_io_report_flag,
                        digital_io_switch_buffer, gpio_level, hw_calls >>
        /\ DOMAIN report' = 0 .. 3
        /\ \A i \in Ports :
             Bit(report'[0], i) =
               (IF LiveMode(i) = GPIO_MODE_OUTPUT_PP THEN 1 ELSE 0)
        /\ Bit(report'[0], 6) = 0
        /\ Bit(report'[0], 7) = 0
        /\ report'[0] < U8
        /\ \A k \in 0 .. 2, p \in Pins :
             /\ Bit(report'[1 + k], p) = digital_io.ports[2 * k].pins[p]
             /\ Bit(report'[1 + k], 4 + p) = digital_io.ports[2 * k + 1].pins[p]
    ]_vars

\* a report of a live state with outputs and inputs, where the two ports
\* of one byte both hold high and low pins
C11_Witness ==
  /\ ReportBuilt
  /\ \E i, j \in Ports :
       /\ LiveMode(i) = GPIO_MODE_OUTPUT_PP
       /\ LiveMode(j) = GPIO_MODE_INPUT
       /\ Bit(report[0], i) = 1
       /\ Bit(report[0], j) = 0
  /\ \E k \in 0 .. 2 :
       /\ Nibble(report[1 + k], 0) \notin { 0, 15 }
       /\ Nibble(report[1 + k], 4) \notin { 0, 15 }

(* ---- C12 --------------------------------------------------------------- *)
\* the bit of port p in byte 0 of the report, and the nibble of its pins
ReportModeBit(p) == Bit(report[0], p)
ReportNibble(p) == Nibble(report[1 + (p \div 2)], 4 * (p % 2))

\* C12: command to report.  After Set_Changes(buffer); SwitchPorts;
\* CreateReport with no read in between, a port whose byte is in use with
\* mode Output reports mode bit 1 and, as its nibble, bits 4..7 of its byte;
\* a port whose byte is not in use reports mode bit 0 and the nibble 0000.
C12_CommandToReport ==
  (AfterCycle /\ ReportBuilt) =>
    \A p \in Ports :
      /\ (InUse(p) /\ Bit(output_buff[p + 1], 1) = 1) =>
           /\ ReportModeBit(p) = 1
           /\ ReportNibble(p) = Nibble(output_buff[p + 1], 4)
      /\ ~InUse(p) =>
           /\ ReportModeBit(p) = 0
           /\ ReportNibble(p) = 0

\* the report of a cycle that made a port an output with the pins 1010 and
\* dropped a port that was an output
C12_Witness ==
  /\ AfterCycle
  /\ ReportBuilt
  /\ \E p \in Ports : output_buff[p + 1] = 175 /\ ReportNibble(p) = 10
  /\ \E q \in outputs_before : ~InUse(q)

(* ---- C13 --------------------------------------------------------------- *)
\* a step of Read: the caller sees Read as the last call, and it was not so
\* before or the calls sampled other levels
ReadStep ==
  /\ last_op' = "Read"
  /\ (last_op # "Read" \/ gpio_read_calls' # gpio_read_calls)

\* what Read leaves alone in a live port
PortFrame(port) ==
  << port.gpio_settings, port.pin_enabled_size, port.changeIO, port.changePIN >>

\* C13: a Read step samples every pin of every port once, in port and pin
\* order, and stores the level returned as the live pin value, for output
\* ports as for input ports; it leaves the live mode, pull, pin mask and
\* flags, the candidate state, the sequencer, the trigger and the two flags
\* unchanged and makes no HAL_GPIO_Init and no GPIO_Write_DIGITAL_IO call.
C13_ReadFrame ==
  [][ ReadStep =>
        /\ Len(gpio_read_calls') = DIGITAL_MAX_PORT_NUM * DIGITAL_MAX_PIN_NUM
        /\ \A p \in Ports, pin \in Pins :
             LET c == gpio_read_calls'[p * DIGITAL_MAX_PIN_NUM + pin + 1] IN
               /\ c.port = p
               /\ c.pin = pin
               /\ digital_io'.ports[p].pins[pin] = c.level
        /\ \A p \in Ports :
             PortFrame(digital_io'.ports[p]) = PortFrame(digital_io.ports[p])
        /\ UNCHANGED << digital_io_new_state, digital_io_switch_buffer,
                        digital_io_trigger, digital_io_change_flag,
                        digital_io_report_flag, gpio_level >>
        /\ gpio_init_calls' = << >>
        /\ gpio_write_calls' = << >>
    ]_vars

\* a read that replaced the pin values of a live output port by sampled
\* levels other than the levels written to it
C13_Witness ==
  /\ last_op = "Read"
  /\ \E p \in Ports :
       /\ LiveMode(p) = GPIO_MODE_OUTPUT_PP
       /\ digital_io.ports[p].pins # gpio_level[p]
       /\ \A pin \in Pins :
            digital_io.ports[p].pins[pin] =
              gpio_read_calls[p * DIGITAL_MAX_PIN_NUM + pin + 1].level

(* ---- C14 --------------------------------------------------------------- *)
\* C14: a Trigger step sets the trigger to Triggered when the first byte of
\* its buffer is 0xFE and to DontCare for every other first byte, whatever
\* the trigger was and whatever the other bytes are, and changes nothing
\* else of the engine and makes no hardware call.
C14_Trigger ==
  [][ (trig_in' # -1) =>
        /\ (trig_in' = 254) => digital_io_trigger' = TRIGGERED
        /\ (trig_in' # 254) => digital_io_trigger' = DONTCARE
        /\ UNCHANGED << digital_io, digital_io_new_state,
                        digital_io_switch_buffer, digital_io_change_flag,
                        digital_io_report_flag, gpio_level, hw_calls >>
    ]_vars

\* a trigger on 0xFE between a transition computation that queued ports and
\* its commit
C14_Witness ==
  /\ trig_in = 254
  /\ digital_io_trigger = TRIGGERED
  /\ AfterSetChanges
  /\ QueuedCount >= 2

(* ---- C15 --------------------------------------------------------------- *)
\* bits 3..2 of a command byte
PullBits(byte) == 2 * Bit(byte, 3) + Bit(byte, 2)

\* C15: the decoding is total.  After Set_Changes, for every byte value with
\* bit 0 set, on every port, the candidate mode is Output exactly when bit 1
\* is set and Input otherwise, and the candidate pull is NoPull for the pull
\* bits 00, PullDown for 01, PullUp for 10 and NoPull for 11; no access
\* leaves the switch buffer.
C15_DecodingTotal ==
  AfterSetChanges =>
    /\ ~mem_fault
    /\ \A p \in Ports :
         InUse(p) =>
           LET byte == output_buff[p + 1] IN
             /\ CandMode(p) =
                  (IF Bit(byte, 1) = 1 THEN GPIO_MODE_OUTPUT_PP ELSE GPIO_MODE_INPUT)
             /\ CandPull(p) =
                  (CASE PullBits(byte) = 0 -> GPIO_NOPULL
                     [] PullBits(byte) = 1 -> GPIO_PULLDOWN
                     [] PullBits(byte) = 2 -> GPIO_PULLUP
                     [] PullBits(byte) = 3 -> GPIO_NOPULL)

\* the byte 0xFF, with the pull bits 11, decoded on every port
C15_Witness ==
  /\ AfterSetChanges
  /\ \A p \in Ports :
       /\ output_buff[p + 1] = 255
       /\ CandMode(p) = GPIO_MODE_OUTPUT_PP
       /\ CandPull(p) = GPIO_NOPULL

(* ---- C16 --------------------------------------------------------------- *)
\* C16: a Set_Changes step on a buffer of fewer than DIGITAL_MAX_PORT_NUM
\* bytes is rejected: it leaves the live state, the candidate state and the
\* sequencer as they were and makes no hardware call.
C16_MalformedRejected ==
  [][ (ncmd' = ncmd + 1 /\ output_len' < DIGITAL_MAX_PORT_NUM) =>
        /\ UNCHANGED << digital_io, digital_io_new_state,
                        digital_io_switch_buffer, gpio_level >>
        /\ gpio_init_calls' = << >>
        /\ gpio_write_calls' = << >>
        /\ gpio_read_calls' = << >>
    ]_vars

(* ---- C17 --------------------------------------------------------------- *)
\* the HAL_GPIO_Init calls of the last operation that configure port p
CallsOf(p) == { i \in InitCallIdx : gpio_init_calls[i].port = p }

\* C17: last queued, first configured.  After a cycle, within each of the
\* two loops the ports are configured in the reverse of the order in which
\* the scan of Set_Changes queued them, that is by falling port index, and
\* every queued port gets exactly one HAL_GPIO_Init call, no other port any.
C17_LastQueuedFirst ==
  AfterCycle =>
    /\ \A i, j \in InitCallIdx :
         ( i < j /\ gpio_init_calls[i].loop = gpio_init_calls[j].loop ) =>
           gpio_init_calls[i].port > gpio_init_calls[j].port
    /\ \A p \in ToInput \cup ToOutput : Cardinality(CallsOf(p)) = 1
    /\ \A p \in Ports \ (ToInput \cup ToOutput) : CallsOf(p) = { }
    /\ Len(gpio_init_calls) = Cardinality(ToInput \cup ToOutput)

\* a commit that drains two ports or more from each end
C17_Witness ==
  /\ AfterCycle
  /\ \E i, j \in InitCallIdx :
       i < j /\ gpio_init_calls[i].loop = 1 /\ gpio_init_calls[j].loop = 1
  /\ \E i, j \in InitCallIdx :
       i < j /\ gpio_init_calls[i].loop = 2 /\ gpio_init_calls[j].loop = 2

(* ---- C18 --------------------------------------------------------------- *)
\* C18: when Reset_SwitchTrig was the last call, whatever the state before
\* it, the sequencer is empty with every slot PORT_UNUSED, the trigger is
\* DONTCARE, the change flag is UNCHANGED and the report flag is NO_REPORT.
C18_ResetUnsetsAll ==
  (last_op = "Reset_SwitchTrig" /\ trig_in = -1) =>
    /\ digital_io_switch_buffer.head_idx = 0
    /\ digital_io_switch_buffer.tail_idx = DIGITAL_MAX_PORT_NUM - 1
    /\ \A i \in Ports : digital_io_switch_buffer.array[i] = PORT_UNUSED
    /\ digital_io_trigger = DONTCARE
    /\ digital_io_change_flag = FLAG_UNCHANGED
    /\ digital_io_report_flag = NO_REPORT

(* ---- C19 --------------------------------------------------------------- *)
\* C19: the indices stay in the array within a cycle.  After a Set_Changes
\* that began on an empty sequencer no store went outside the array, also
\* when head_idx has stepped up to DIGITAL_MAX_PORT_NUM or tail_idx one below
\* 0; after the SwitchPorts that follows, every index handed to GPIO_Setup
\* was in the array, the slot read there held the port this cycle queued in
\* it, and both loops have ended with the cursors at their resting values.
C19_IndicesInBounds ==
  /\ AfterSetChanges =>
       /\ ~mem_fault
       /\ digital_io_switch_buffer.head_idx <= DIGITAL_MAX_PORT_NUM
       /\ digital_io_switch_buffer.tail_idx \in Ports \cup { U8 - 1 }
  /\ AfterCycle =>
       /\ ~mem_fault
       /\ \A i \in InitCallIdx :
            LET c == gpio_init_calls[i] IN
              /\ c.idx \in Ports
              /\ c.port \in Ports
              /\ c.loop = 1 => (c.port \in ToInput /\ RankIn(ToInput, c.port) = c.idx)
              /\ c.loop = 2 =>
                   ( c.port \in ToOutput
                     /\ RankIn(ToOutput, c.port) = DIGITAL_MAX_PORT_NUM - 1 - c.idx )
       /\ digital_io_switch_buffer.head_idx = 0
       /\ digital_io_switch_buffer.tail_idx = DIGITAL_MAX_PORT_NUM - 1

\* a commit after all the ports went into the drive phase: the second loop
\* started from the tail_idx one below 0 and read all the slots
C19_Witness ==
  /\ AfterCycle
  /\ Len(gpio_init_calls) = DIGITAL_MAX_PORT_NUM
  /\ \A i \in InitCallIdx :
       gpio_init_calls[i].loop = 2 /\ gpio_init_calls[i].idx = i - 1

(* ---- C20 --------------------------------------------------------------- *)
\* C20: a commit keeps the sampled inputs.  A SwitchPorts step leaves the
\* live pin values of every port that is live Input before it and live
\* Input after it as they were.
C20_CommitKeepsInputs ==
  [][ (last_op' = "SwitchPorts") =>
        \A p \in Ports :
          ( LiveMode(p) = GPIO_MODE_INPUT
            /\ digital_io'.ports[p].gpio_settings.Mode = GPIO_MODE_INPUT ) =>
              digital_io'.ports[p].pins = digital_io.ports[p].pins
    ]_vars

====
